---------------------------- MODULE Spec2Model ----------------------------
(***************************************************************************)
(* LifeOS: the offline-first sync core.                                    *)
(*                                                                         *)
(*   src/lib/sync-engine.ts   SyncEngine (addToQueue, sync, syncItem,      *)
(*                            handleOnline, handleOffline, getStatus)      *)
(*   src/lib/db.ts            the Dexie tables (entity tables, syncQueue)  *)
(*   src/components/providers/sync-provider.tsx   the 30 s periodic sync   *)
(*   src/unnamed/part_012     the tasks page (addTask, toggleTask,         *)
(*                            deleteTask)                                  *)
(*   src/unnamed/part_000     NetworkStatus, polling getStatus()           *)
(*   src/unnamed/part_001     AuthProvider (the signed-in owner)           *)
(*   src/components/ui/backgrounds.tsx   the chatbot's local task insert   *)
(*   src/lib/ai-queue.ts      AIQueueManager (addToQueue, processQueue)    *)
(*                                                                         *)
(* JavaScript runs every handler to its next await without interruption,   *)
(* so one action of the model is the code between two awaits.  A call on   *)
(* the syncQueue table takes effect in the order the calls are issued      *)
(* (IndexedDB runs the transactions of one object store in the order they  *)
(* were created) and its promise resolves in that order too: the effect of *)
(* a table call is applied by the step that issues it, and the caller is   *)
(* appended to storeWaiters and resumed when it is at the head.  The       *)
(* aiQueue table is modelled the same way, with aiWaiters; its calls are   *)
(* taken to resolve (a rejecting db.aiQueue call is not modelled).         *)
(***************************************************************************)
EXTENDS Integers, Sequences, FiniteSets, TLC

\* ---------------------------------------------------------------- bounds
\* Number of addToQueue() calls of a behaviour (ids 1..MaxEntries).
MaxEntries == 2
\* Number of online/offline events queued by the platform and not yet handled.
MaxEvents == 1
\* Number of sync() invocations that can be suspended at the same time.
MaxInvocations == 2
\* Wall-clock readings new Date() can return (the clock may be set back).
MaxTime == 2
\* Distinct record contents a payload can carry.
MaxPayload == 2
\* Number of db.syncQueue calls of the passes of a behaviour that reject.
MaxStoreFailures == 2

\* Number of AIQueueManager.addToQueue() calls of a behaviour (ids 1..MaxJobs).
MaxJobs == 3

\* sync-engine.ts:58  if (item.attempts >= 5)
MaxAttempts == 5

RecordIds == {"r1", "r2"}
LocalIds == {"r1"}
Timestamps == 1..MaxTime
Payloads == 1..MaxPayload
Invocations == 1..MaxInvocations
\* data is undefined for a delete; a remote or local row that does not exist
NoData == 0
\* part_001:19  useState<User | null>(null)
NoUser == "null"
Users == {"u1"}
\* ai-queue.ts:59  result.output of the reply: a string, or undefined when
\* the reply carries no output (the route answered with an error object)
AIOutputs == {"output", "undefined"}
\* db.ts:101  result?: string, absent until a pass writes it
NoResult == "none"

VARIABLES
    isOnline,      \* SyncEngine.isOnline
    isSyncing,     \* SyncEngine.isSyncing
    navOnline,     \* navigator.onLine
    events,        \* window 'online' / 'offline' events dispatched, not yet handled
    syncQueue,     \* db.syncQueue: the set of its rows
    nextId,        \* the ++id auto-increment key of db.syncQueue
    drain,         \* the suspended invocations of sync(): pc, queue, index
    storeWaiters,  \* callers awaiting a db.syncQueue promise, in issue order
    remote,        \* the Supabase table: recordId -> stored payload (NoData: no row)
    tasks,         \* db.tasks: id -> row, for the ids that have a row
    taskIds,       \* the ids the ++id key of db.tasks has handed out
    user,          \* AuthProvider's user state: the signed-in owner, or NoUser
    shown,         \* NetworkStatus's state: the status it last read and shows
    storeFailures, \* the db.syncQueue calls of the passes that have rejected
    aiQueue,       \* db.aiQueue: the sequence of its rows, row id = index
    aiRuns,        \* the invocations of processQueue(), one per addToQueue() call
    aiWaiters,     \* callers awaiting a db.aiQueue promise, in issue order
    requests,      \* history: number of POSTs to /api/ai sent per job
    reentered,     \* history: a sync() call returned at the guard during this pass
    lastData,      \* history: payload of the latest entry enqueued per record
    enqueued,      \* history: records an entry was enqueued for
    evicted        \* history: some entry was removed without having succeeded

vars == <<isOnline, isSyncing, navOnline, events, syncQueue, nextId, drain,
          storeWaiters, remote, tasks, taskIds, user, shown, storeFailures,
          aiQueue, aiRuns, aiWaiters, requests,
          reentered, lastData, enqueued, evicted>>

histVars == <<lastData, enqueued, evicted>>
aiVars == <<aiQueue, aiRuns, aiWaiters, requests>>
pageVars == <<tasks, taskIds, user, shown, aiVars>>
localVars == <<tasks, taskIds, user, shown, storeFailures, aiVars>>
engineVars == <<isOnline, isSyncing, syncQueue, nextId, drain, storeWaiters,
                remote, reentered, lastData, enqueued, evicted>>

\* ------------------------------------------------------------ db.syncQueue
\* the row with the attempt counter started at 1
NewEntryOneAttempt(id, op, rec, data, ts) ==
    [id |-> id, tableName |-> "tasks", operation |-> op, recordId |-> rec,
     data |-> data, timestamp |-> ts, attempts |-> 1]

\* db.ts:84-92  interface SyncQueue; sync-engine.ts:26-33 the row addToQueue adds
NewEntry(id, op, rec, data, ts) ==
    [id |-> id, tableName |-> "tasks", operation |-> op, recordId |-> rec,
     data |-> data, timestamp |-> ts, attempts |-> 0]

\* Dexie index order: by the indexed key, equal keys by primary key
Before(e, f) ==
    \/ e.timestamp < f.timestamp
    \/ e.timestamp = f.timestamp /\ e.id <= f.id

RECURSIVE OrderBy(_)
\* sync-engine.ts:46  db.syncQueue.orderBy('timestamp').toArray()
OrderBy(S) ==
    IF S = {} THEN <<>>
    ELSE LET m == CHOOSE e \in S : \A f \in S : Before(e, f)
         IN  <<m>> \o OrderBy(S \ {m})

\* db.syncQueue.delete(id): removes the row, no error when it is absent
TableDelete(S, id) == {e \in S : e.id # id}

\* db.syncQueue.update(id, {attempts: n}): changes the row when it exists
TableUpdate(S, id, n) ==
    {IF e.id = id THEN [e EXCEPT !.attempts = n] ELSE e : e \in S}

\* no row of db.syncQueue is for record r
NoEntryFor(r) == \A e \in syncQueue : e.recordId # r

IdleDrain == [pc |-> "idle", queue |-> <<>>, i |-> 0]

Active == {s \in Invocations : drain[s].pc # "idle"}

Item(s) == drain[s].queue[drain[s].i]

\* ------------------------------------------------------------- SyncEngine
\* the guard without the reentrancy check
SyncGuardNoReentrancy(syncing, online) == ~online

\* the guard without the connectivity check
SyncGuardNoOnlineCheck(syncing, online) == syncing

\* sync-engine.ts:41  if (this.isSyncing || !this.isOnline) return
SyncGuard(syncing, online) == syncing \/ ~online

\* sync-engine.ts:43-46: a pass begins. isSyncing is set and the snapshot
\* read is issued; the invocation waits for db.syncQueue ...toArray()
StartPass(s) ==
    /\ isSyncing' = TRUE
    /\ drain' = [drain EXCEPT ![s] =
                    [pc |-> "read", queue |-> OrderBy(syncQueue), i |-> 0]]
    /\ reentered' = FALSE

\* sync() with the guard inside the try block: the finally block clears
\* isSyncing also when the call returns at the guard
SyncCallGuardInTry(online, w) ==
    IF SyncGuard(isSyncing, online)
    THEN /\ isSyncing' = FALSE
         /\ UNCHANGED drain
         /\ storeWaiters' = w
         /\ reentered' = (reentered \/ isSyncing)
    ELSE \E s \in Invocations :
            /\ drain[s].pc = "idle"
            /\ \A t \in Invocations : drain[t].pc = "idle" => s <= t
            /\ StartPass(s)
            /\ storeWaiters' = Append(w, [kind |-> "sync", who |-> s])

\* sync-engine.ts:40-46  sync(), called with isOnline = online, up to its first
\* await; w is storeWaiters as the caller leaves it
SyncCall(online, w) ==
    IF SyncGuard(isSyncing, online)
    THEN /\ UNCHANGED <<isSyncing, drain>>
         /\ storeWaiters' = w
         /\ reentered' = (reentered \/ isSyncing)
    ELSE \E s \in Invocations :
            /\ drain[s].pc = "idle"
            /\ \A t \in Invocations : drain[t].pc = "idle" => s <= t
            /\ StartPass(s)
            /\ storeWaiters' = Append(w, [kind |-> "sync", who |-> s])

\* sync-engine.ts:48-50 and 63-65: the for loop moves to queue[i]. Past the end
\* the finally block clears isSyncing and sync() returns; otherwise syncItem
\* issues the remote call of queue[i] and the pass waits for it
Continue(s, i) ==
    IF i > Len(drain[s].queue)
    THEN /\ isSyncing' = FALSE
         /\ drain' = [drain EXCEPT ![s] = IdleDrain]
         /\ reentered' = FALSE
    ELSE /\ drain' = [drain EXCEPT ![s].pc = "remote", ![s].i = i]
         /\ UNCHANGED <<isSyncing, reentered>>

\* the head of storeWaiters is invocation s of sync()
AtHead(s) ==
    /\ storeWaiters # <<>>
    /\ Head(storeWaiters) = [kind |-> "sync", who |-> s]

\* the loop iterating over the rows the outbox holds when the read resolves
ReadDoneLate(s) ==
    /\ drain[s].pc = "read"
    /\ AtHead(s)
    /\ storeWaiters' = Tail(storeWaiters)
    /\ IF syncQueue = {}
       THEN Continue(s, 1)
       ELSE /\ drain' = [drain EXCEPT ![s] = [pc |-> "remote",
                                               queue |-> OrderBy(syncQueue),
                                               i |-> 1]]
            /\ UNCHANGED <<isSyncing, reentered>>
    /\ UNCHANGED <<isOnline, navOnline, events, syncQueue, nextId, remote>>
    /\ UNCHANGED localVars
    /\ UNCHANGED histVars

\* sync-engine.ts:46-48: the snapshot has been read, the loop starts
ReadDone(s) ==
    /\ drain[s].pc = "read"
    /\ AtHead(s)
    /\ storeWaiters' = Tail(storeWaiters)
    /\ Continue(s, 1)
    /\ UNCHANGED <<isOnline, navOnline, events, syncQueue, nextId, remote>>
    /\ UNCHANGED localVars
    /\ UNCHANGED histVars

\* an insert that drops the stored row when the key is already there
RemoteApplyDropOnConflict(r, item) ==
    IF item.operation = "delete" \/ r[item.recordId] # NoData
    THEN [r EXCEPT ![item.recordId] = NoData]
    ELSE [r EXCEPT ![item.recordId] = item.data]

\* sync-engine.ts:71-79  syncItem: what the remote call does to the remote table
RemoteApply(r, item) ==
    IF item.operation = "delete"
    THEN [r EXCEPT ![item.recordId] = NoData]
    ELSE [r EXCEPT ![item.recordId] = item.data]

\* the delete of line 51 issued for another key: the row stays
RemoteOkNoDelete(s) ==
    /\ drain[s].pc = "remote"
    /\ remote' = RemoteApply(remote, Item(s))
    /\ drain' = [drain EXCEPT ![s].pc = "delete"]
    /\ storeWaiters' = Append(storeWaiters, [kind |-> "sync", who |-> s])
    /\ UNCHANGED <<isOnline, isSyncing, navOnline, events, syncQueue, nextId,
                   reentered>>
    /\ UNCHANGED localVars
    /\ UNCHANGED histVars

\* sync-engine.ts:50-51: syncItem resolved; the row is deleted from db.syncQueue
RemoteOk(s) ==
    /\ drain[s].pc = "remote"
    /\ remote' = RemoteApply(remote, Item(s))
    /\ syncQueue' = TableDelete(syncQueue, Item(s).id)
    /\ drain' = [drain EXCEPT ![s].pc = "delete"]
    /\ storeWaiters' = Append(storeWaiters, [kind |-> "sync", who |-> s])
    /\ UNCHANGED <<isOnline, isSyncing, navOnline, events, nextId, reentered>>
    /\ UNCHANGED localVars
    /\ UNCHANGED histVars

\* the catch block writing 1 instead of the snapshot's attempts plus 1
NextAttemptsOne(item) == 1

\* sync-engine.ts:55  the attempt count written after a failed replay
NextAttempts(item) == item.attempts + 1

\* a catch block that only logs: attempts is not written
RemoteFailNoUpdate(s, applied) ==
    /\ drain[s].pc = "remote"
    /\ remote' = IF applied THEN RemoteApply(remote, Item(s)) ELSE remote
    /\ drain' = [drain EXCEPT ![s].pc = "update"]
    /\ storeWaiters' = Append(storeWaiters, [kind |-> "sync", who |-> s])
    /\ UNCHANGED <<isOnline, isSyncing, navOnline, events, syncQueue, nextId,
                   reentered>>
    /\ UNCHANGED localVars
    /\ UNCHANGED histVars

\* sync-engine.ts:52-55: syncItem rejected (applied: the request had reached the
\* backend and only the acknowledgment was lost); attempts is incremented
RemoteFail(s, applied) ==
    /\ drain[s].pc = "remote"
    /\ remote' = IF applied THEN RemoteApply(remote, Item(s)) ELSE remote
    /\ syncQueue' = TableUpdate(syncQueue, Item(s).id, NextAttempts(Item(s)))
    /\ drain' = [drain EXCEPT ![s].pc = "update"]
    /\ storeWaiters' = Append(storeWaiters, [kind |-> "sync", who |-> s])
    /\ UNCHANGED <<isOnline, isSyncing, navOnline, events, nextId, reentered>>
    /\ UNCHANGED localVars
    /\ UNCHANGED histVars

\* sync-engine.ts:58  if (item.attempts >= 5), item being the snapshot's row
TooManyAttempts(item) == item.attempts >= MaxAttempts

\* the try/catch around the loop instead of around its body: a failed replay
\* ends the pass
UpdateDoneAbort(s) ==
    /\ drain[s].pc = "update"
    /\ AtHead(s)
    /\ storeWaiters' = Tail(storeWaiters)
    /\ Continue(s, Len(drain[s].queue) + 1)
    /\ UNCHANGED <<isOnline, navOnline, events, syncQueue, nextId, remote>>
    /\ UNCHANGED localVars
    /\ UNCHANGED histVars

\* sync-engine.ts:55-61: the update resolved; the row is deleted when the
\* snapshot's attempts has reached the bound, else the loop goes on
UpdateDone(s) ==
    /\ drain[s].pc = "update"
    /\ AtHead(s)
    /\ IF TooManyAttempts(Item(s))
       THEN /\ syncQueue' = TableDelete(syncQueue, Item(s).id)
            /\ drain' = [drain EXCEPT ![s].pc = "evict"]
            /\ storeWaiters' =
                   Append(Tail(storeWaiters), [kind |-> "sync", who |-> s])
            /\ evicted' = TRUE
            /\ UNCHANGED <<isSyncing, reentered>>
       ELSE /\ storeWaiters' = Tail(storeWaiters)
            /\ Continue(s, drain[s].i + 1)
            /\ UNCHANGED <<syncQueue, evicted>>
    /\ UNCHANGED <<isOnline, navOnline, events, nextId, remote>>
    /\ UNCHANGED localVars
    /\ UNCHANGED <<lastData, enqueued>>

\* sync-engine.ts:51 and 59: a db.syncQueue.delete resolved, the loop goes on
DeleteDone(s) ==
    /\ drain[s].pc \in {"delete", "evict"}
    /\ AtHead(s)
    /\ storeWaiters' = Tail(storeWaiters)
    /\ Continue(s, drain[s].i + 1)
    /\ UNCHANGED <<isOnline, navOnline, events, syncQueue, nextId, remote>>
    /\ UNCHANGED localVars
    /\ UNCHANGED histVars

\* sync-engine.ts:74 and 77: the backend refuses the request (authorization
\* denied, validation rejected). The query builder of supabase-js resolves with
\* {data, error} (read as such in part_003:669-671) and syncItem discards the
\* value, so the await of line 50 returns normally and line 51 deletes the row
RemoteRejected(s) ==
    /\ drain[s].pc = "remote"
    /\ syncQueue' = TableDelete(syncQueue, Item(s).id)
    /\ drain' = [drain EXCEPT ![s].pc = "delete"]
    /\ storeWaiters' = Append(storeWaiters, [kind |-> "sync", who |-> s])
    /\ UNCHANGED <<isOnline, isSyncing, navOnline, events, nextId, remote,
                   reentered>>
    /\ UNCHANGED localVars
    /\ UNCHANGED histVars

\* ------------------------------------------- db.syncQueue calls that reject
\* the error leaves sync() with isSyncing still set
ThrowOutNoFinally(s) ==
    /\ drain' = [drain EXCEPT ![s] = IdleDrain]
    /\ UNCHANGED <<isSyncing, reentered>>

\* sync-engine.ts:63-65: an error leaves the try block; the finally block
\* clears isSyncing and the promise of sync() rejects
ThrowOut(s) ==
    /\ isSyncing' = FALSE
    /\ drain' = [drain EXCEPT ![s] = IdleDrain]
    /\ reentered' = FALSE

\* sync-engine.ts:46: the snapshot read rejects, outside the inner try
ReadFail(s) ==
    /\ drain[s].pc = "read"
    /\ AtHead(s)
    /\ storeFailures < MaxStoreFailures
    /\ storeWaiters' = Tail(storeWaiters)
    /\ ThrowOut(s)
    /\ UNCHANGED <<isOnline, navOnline, events, syncQueue, nextId, remote>>
    /\ storeFailures' = storeFailures + 1
    /\ UNCHANGED pageVars
    /\ UNCHANGED histVars

\* sync-engine.ts:50-51: syncItem resolved and the db.syncQueue.delete it is
\* followed by will reject: the row stays
RemoteOkDeleteFail(s) ==
    /\ drain[s].pc = "remote"
    /\ storeFailures < MaxStoreFailures
    /\ remote' = RemoteApply(remote, Item(s))
    /\ drain' = [drain EXCEPT ![s].pc = "caught"]
    /\ storeWaiters' = Append(storeWaiters, [kind |-> "sync", who |-> s])
    /\ UNCHANGED <<isOnline, isSyncing, navOnline, events, syncQueue, nextId,
                   reentered>>
    /\ storeFailures' = storeFailures + 1
    /\ UNCHANGED pageVars
    /\ UNCHANGED histVars

\* sync-engine.ts:52-55: the delete of line 51 rejected inside the inner try;
\* the catch block writes attempts + 1 (ok: that update will resolve)
CatchStoreError(s, ok) ==
    /\ drain[s].pc = "caught"
    /\ AtHead(s)
    /\ (ok \/ storeFailures < MaxStoreFailures)
    /\ syncQueue' = IF ok
                    THEN TableUpdate(syncQueue, Item(s).id, NextAttempts(Item(s)))
                    ELSE syncQueue
    /\ drain' = [drain EXCEPT ![s].pc = IF ok THEN "update" ELSE "throw"]
    /\ storeWaiters' = Append(Tail(storeWaiters), [kind |-> "sync", who |-> s])
    /\ UNCHANGED <<isOnline, isSyncing, navOnline, events, nextId, remote,
                   reentered>>
    /\ storeFailures' = IF ok THEN storeFailures ELSE storeFailures + 1
    /\ UNCHANGED pageVars
    /\ UNCHANGED histVars

\* sync-engine.ts:52-55: syncItem rejected and the db.syncQueue.update of the
\* catch block will reject: the row keeps its attempts
RemoteFailUpdateFail(s, applied) ==
    /\ drain[s].pc = "remote"
    /\ storeFailures < MaxStoreFailures
    /\ remote' = IF applied THEN RemoteApply(remote, Item(s)) ELSE remote
    /\ drain' = [drain EXCEPT ![s].pc = "throw"]
    /\ storeWaiters' = Append(storeWaiters, [kind |-> "sync", who |-> s])
    /\ UNCHANGED <<isOnline, isSyncing, navOnline, events, syncQueue, nextId,
                   reentered>>
    /\ storeFailures' = storeFailures + 1
    /\ UNCHANGED pageVars
    /\ UNCHANGED histVars

\* sync-engine.ts:58-59: the update resolved, the bound is reached and the
\* db.syncQueue.delete of the catch block will reject: the row stays
EvictFail(s) ==
    /\ drain[s].pc = "update"
    /\ AtHead(s)
    /\ TooManyAttempts(Item(s))
    /\ storeFailures < MaxStoreFailures
    /\ drain' = [drain EXCEPT ![s].pc = "throw"]
    /\ storeWaiters' = Append(Tail(storeWaiters), [kind |-> "sync", who |-> s])
    /\ UNCHANGED <<isOnline, isSyncing, navOnline, events, syncQueue, nextId,
                   remote, reentered>>
    /\ storeFailures' = storeFailures + 1
    /\ UNCHANGED pageVars
    /\ UNCHANGED histVars

\* sync-engine.ts:55, 59 and 63-65: a db.syncQueue call of the catch block
\* rejected; nothing catches it before the finally block
Throw(s) ==
    /\ drain[s].pc = "throw"
    /\ AtHead(s)
    /\ storeWaiters' = Tail(storeWaiters)
    /\ ThrowOut(s)
    /\ UNCHANGED <<isOnline, navOnline, events, syncQueue, nextId, remote>>
    /\ UNCHANGED localVars
    /\ UNCHANGED histVars

\* sync-engine.ts:25-33  addToQueue up to its await: the row is added with the
\* next ++id key and attempts 0; ts is what new Date() returns (the wall clock:
\* it can be set back between two calls)
AddToQueue(op, rec, data, ts) ==
    /\ nextId <= MaxEntries
    /\ syncQueue' = syncQueue \cup {NewEntry(nextId, op, rec, data, ts)}
    /\ nextId' = nextId + 1
    /\ storeWaiters' = Append(storeWaiters,
           [kind |-> "add", who |-> nextId, data |-> data, offline |-> ~isOnline])
    /\ lastData' = [lastData EXCEPT ![rec] = data]
    /\ enqueued' = enqueued \cup {rec}
    /\ UNCHANGED <<isOnline, isSyncing, navOnline, events, drain, remote,
                   reentered, evicted>>
    /\ UNCHANGED localVars

\* addToQueue without its call of sync()
AddToQueueResumeNoSync ==
    /\ storeWaiters # <<>>
    /\ Head(storeWaiters).kind = "add"
    /\ storeWaiters' = Tail(storeWaiters)
    /\ UNCHANGED <<isSyncing, drain, reentered>>
    /\ UNCHANGED <<isOnline, navOnline, events, syncQueue, nextId, remote>>
    /\ UNCHANGED localVars
    /\ UNCHANGED histVars

\* sync-engine.ts:35-37: the add resolved; if (this.isOnline) this.sync()
AddToQueueResume ==
    /\ storeWaiters # <<>>
    /\ Head(storeWaiters).kind = "add"
    /\ IF isOnline
       THEN SyncCall(isOnline, Tail(storeWaiters))
       ELSE /\ storeWaiters' = Tail(storeWaiters)
            /\ UNCHANGED <<isSyncing, drain, reentered>>
    /\ UNCHANGED <<isOnline, navOnline, events, syncQueue, nextId, remote>>
    /\ UNCHANGED localVars
    /\ UNCHANGED histVars

\* handleOnline without its call of sync()
HandleOnlineNoSync ==
    /\ events # <<>>
    /\ Head(events) = "online"
    /\ events' = Tail(events)
    /\ isOnline' = TRUE
    /\ UNCHANGED <<isSyncing, navOnline, syncQueue, nextId, drain, storeWaiters,
                   remote, reentered>>
    /\ UNCHANGED localVars
    /\ UNCHANGED histVars

\* sync-engine.ts:16-19  handleOnline, run for a dispatched 'online' event
HandleOnline ==
    /\ events # <<>>
    /\ Head(events) = "online"
    /\ events' = Tail(events)
    /\ isOnline' = TRUE
    /\ SyncCall(TRUE, storeWaiters)
    /\ UNCHANGED <<navOnline, syncQueue, nextId, remote>>
    /\ UNCHANGED localVars
    /\ UNCHANGED histVars

\* handleOffline clearing isSyncing too
HandleOfflineStopSyncing ==
    /\ events # <<>>
    /\ Head(events) = "offline"
    /\ events' = Tail(events)
    /\ isOnline' = FALSE
    /\ isSyncing' = FALSE
    /\ UNCHANGED <<navOnline, syncQueue, nextId, drain, storeWaiters,
                   remote, reentered>>
    /\ UNCHANGED localVars
    /\ UNCHANGED histVars

\* sync-engine.ts:21-23  handleOffline, run for a dispatched 'offline' event
HandleOffline ==
    /\ events # <<>>
    /\ Head(events) = "offline"
    /\ events' = Tail(events)
    /\ isOnline' = FALSE
    /\ UNCHANGED <<isSyncing, navOnline, syncQueue, nextId, drain, storeWaiters,
                   remote, reentered>>
    /\ UNCHANGED localVars
    /\ UNCHANGED histVars

\* sync-engine.ts:11-12: the browser changes navigator.onLine and dispatches
\* the event the constructor's listeners are registered for
NavigatorChange ==
    /\ Len(events) < MaxEvents
    /\ navOnline' = ~navOnline
    /\ events' = Append(events, IF navOnline THEN "offline" ELSE "online")
    /\ UNCHANGED <<isOnline, isSyncing, syncQueue, nextId, drain, storeWaiters,
                   remote, reentered>>
    /\ UNCHANGED localVars
    /\ UNCHANGED histVars

\* sync-engine.ts:8-14: isOnline is read from navigator.onLine once, in the
\* constructor, and afterwards only the two listeners write it. Here the
\* browser is reachable again and no 'online' event reaches the listener
OnlineEventMissed ==
    /\ ~navOnline
    /\ events = <<>>
    /\ navOnline' = TRUE
    /\ UNCHANGED <<isOnline, isSyncing, events, syncQueue, nextId, drain,
                   storeWaiters, remote, reentered>>
    /\ UNCHANGED localVars
    /\ UNCHANGED histVars

\* the interval never registered: the tick does nothing
PeriodicSyncStopped ==
    /\ navOnline
    /\ UNCHANGED vars

\* sync-provider.tsx:21-25  the 30 s interval: if (navigator.onLine) sync()
PeriodicSync ==
    /\ navOnline
    /\ SyncCall(isOnline, storeWaiters)
    /\ UNCHANGED <<isOnline, navOnline, events, syncQueue, nextId, remote>>
    /\ UNCHANGED localVars
    /\ UNCHANGED histVars

\* the status read from the browser instead of the engine's own flag
GetStatusFromNavigator == [isOnline |-> navOnline, isSyncing |-> isSyncing]

\* sync-engine.ts:82-87  getStatus()
GetStatus == [isOnline |-> isOnline, isSyncing |-> isSyncing]

\* part_000:11-22  NetworkStatus.updateStatus, run on mount, on the window
\* events and every second: the component stores what getStatus() returns
UpdateStatus ==
    /\ shown' = GetStatus
    /\ UNCHANGED <<isOnline, isSyncing, navOnline, events, syncQueue, nextId,
                   drain, storeWaiters, remote, tasks, taskIds, user, storeFailures,
                   aiVars, reentered>>
    /\ UNCHANGED histVars

\* part_001:24-39  the onAuthStateChanged callback: setUser(firebaseUser)
AuthStateChanged(u) ==
    /\ u # user
    /\ user' = u
    /\ UNCHANGED <<isOnline, isSyncing, navOnline, events, syncQueue, nextId,
                   drain, storeWaiters, remote, tasks, taskIds, shown, storeFailures,
                   aiVars, reentered>>
    /\ UNCHANGED histVars

\* ------------------------------------------------------------ the tasks page
\* part_012:92-111  addTask: db.tasks.add of a row with synced: false
AddTask(id, ts) ==
    /\ user # NoUser
    /\ id \notin taskIds
    /\ taskIds' = taskIds \cup {id}
    /\ tasks' = [r \in DOMAIN tasks \cup {id} |->
                    IF r = id
                    THEN [completed |-> FALSE, synced |-> FALSE, updatedAt |-> ts]
                    ELSE tasks[r]]
    /\ UNCHANGED <<isOnline, isSyncing, navOnline, events, syncQueue, nextId,
                   drain, storeWaiters, remote, user, shown, storeFailures,
                   aiVars, reentered>>
    /\ UNCHANGED histVars

\* part_012:127-133  toggleTask: db.tasks.update(id, {completed, updatedAt})
ToggleTask(id, ts) ==
    /\ id \in DOMAIN tasks
    /\ tasks' = [tasks EXCEPT ![id].completed = ~tasks[id].completed,
                              ![id].updatedAt = ts]
    /\ UNCHANGED <<isOnline, isSyncing, navOnline, events, syncQueue, nextId,
                   drain, storeWaiters, remote, taskIds, user, shown, storeFailures,
                   aiVars, reentered>>
    /\ UNCHANGED histVars

\* backgrounds.tsx:258 and 325-338: the chatbot's reply reports a task the
\* server has created in Supabase; the row is added locally with synced: true
ChatbotInsert(id, data, ts) ==
    /\ user # NoUser
    /\ id \notin taskIds
    /\ taskIds' = taskIds \cup {id}
    /\ tasks' = [r \in DOMAIN tasks \cup {id} |->
                    IF r = id
                    THEN [completed |-> FALSE, synced |-> TRUE, updatedAt |-> ts]
                    ELSE tasks[r]]
    /\ remote' = [remote EXCEPT ![id] = data]
    /\ UNCHANGED <<isOnline, isSyncing, navOnline, events, syncQueue, nextId,
                   drain, storeWaiters, user, shown, storeFailures,
                   aiVars, reentered>>
    /\ UNCHANGED histVars

\* part_012:139-142  deleteTask: db.tasks.delete(id)
DeleteTask(id) ==
    /\ id \in DOMAIN tasks
    /\ tasks' = [r \in DOMAIN tasks \ {id} |-> tasks[r]]
    /\ UNCHANGED <<isOnline, isSyncing, navOnline, events, syncQueue, nextId,
                   drain, storeWaiters, remote, taskIds, user, shown, storeFailures,
                   aiVars, reentered>>
    /\ UNCHANGED histVars

\* ------------------------------------------------------------ the AI queue
\* an invocation of processQueue() that is not running
IdleRun == [pc |-> "idle", tasks |-> <<>>, i |-> 0]

\* ai-queue.ts:34-37  db.aiQueue.where('status').equals('pending').toArray():
\* the ids of the pending rows, in primary-key order
PendingTasks(q) ==
    SelectSeq([k \in 1..Len(q) |-> k], LAMBDA k : q[k].status = "pending")

\* the job the invocation s is at
Task(s) == aiRuns[s].tasks[aiRuns[s].i]

\* ai-queue.ts:4-23  addToQueue up to its await: db.aiQueue.add of a row with
\* status 'pending' and no result
AIAddToQueue ==
    /\ Len(aiQueue) < MaxJobs
    /\ aiQueue' = Append(aiQueue, [status |-> "pending", result |-> NoResult])
    /\ aiWaiters' = Append(aiWaiters, [kind |-> "add", who |-> Len(aiQueue) + 1])
    /\ UNCHANGED <<aiRuns, requests>>
    /\ UNCHANGED <<navOnline, events, tasks, taskIds, user, shown, storeFailures>>
    /\ UNCHANGED engineVars

\* ai-queue.ts:33-37  processQueue() up to its first await: the read of the
\* pending rows is issued; w is aiWaiters as the caller leaves it
ProcessQueueCall(s, w) ==
    /\ aiRuns' = [aiRuns EXCEPT ![s] =
                      [pc |-> "read", tasks |-> PendingTasks(aiQueue), i |-> 0]]
    /\ aiWaiters' = Append(w, [kind |-> "run", who |-> s])

\* ai-queue.ts:25-30  the add resolved: if (navigator.onLine) this.processQueue(),
\* not awaited, and addToQueue returns
AIAddToQueueResume ==
    /\ aiWaiters # <<>>
    /\ Head(aiWaiters).kind = "add"
    /\ IF navOnline
       THEN ProcessQueueCall(Head(aiWaiters).who, Tail(aiWaiters))
       ELSE /\ aiWaiters' = Tail(aiWaiters)
            /\ UNCHANGED aiRuns
    /\ UNCHANGED <<aiQueue, requests>>
    /\ UNCHANGED <<navOnline, events, tasks, taskIds, user, shown, storeFailures>>
    /\ UNCHANGED engineVars

\* ai-queue.ts:39-41 and 69: the read, or the update that closed the previous
\* job, resolved; the loop moves to the next job of pendingTasks and issues
\* update(task.id, {status: 'processing'}), or returns past the end
ProcessQueueNext(s) ==
    /\ aiWaiters # <<>>
    /\ Head(aiWaiters) = [kind |-> "run", who |-> s]
    /\ aiRuns[s].pc \in {"read", "done", "error"}
    /\ IF aiRuns[s].i = Len(aiRuns[s].tasks)
       THEN /\ aiRuns' = [aiRuns EXCEPT ![s] = IdleRun]
            /\ aiWaiters' = Tail(aiWaiters)
            /\ UNCHANGED aiQueue
       ELSE /\ aiRuns' = [aiRuns EXCEPT ![s].pc = "processing",
                                        ![s].i = aiRuns[s].i + 1]
            /\ aiQueue' = [aiQueue EXCEPT
                              ![aiRuns[s].tasks[aiRuns[s].i + 1]].status = "processing"]
            /\ aiWaiters' = Append(Tail(aiWaiters), [kind |-> "run", who |-> s])
    /\ UNCHANGED requests
    /\ UNCHANGED <<navOnline, events, tasks, taskIds, user, shown, storeFailures>>
    /\ UNCHANGED engineVars

\* ai-queue.ts:43-53  the 'processing' update resolved: fetch('/api/ai', POST)
\* is sent for the job
SendRequest(s) ==
    /\ aiWaiters # <<>>
    /\ Head(aiWaiters) = [kind |-> "run", who |-> s]
    /\ aiRuns[s].pc = "processing"
    /\ aiWaiters' = Tail(aiWaiters)
    /\ aiRuns' = [aiRuns EXCEPT ![s].pc = "fetch"]
    /\ requests' = [requests EXCEPT ![Task(s)] = requests[Task(s)] + 1]
    /\ UNCHANGED aiQueue
    /\ UNCHANGED <<navOnline, events, tasks, taskIds, user, shown, storeFailures>>
    /\ UNCHANGED engineVars

\* ai-queue.ts:55-60  the reply arrived and was parsed:
\* update(task.id, {status: 'done', result: result.output})
FetchOk(s, out) ==
    /\ aiRuns[s].pc = "fetch"
    /\ aiQueue' = [aiQueue EXCEPT ![Task(s)] = [status |-> "done", result |-> out]]
    /\ aiRuns' = [aiRuns EXCEPT ![s].pc = "done"]
    /\ aiWaiters' = Append(aiWaiters, [kind |-> "run", who |-> s])
    /\ UNCHANGED requests
    /\ UNCHANGED <<navOnline, events, tasks, taskIds, user, shown, storeFailures>>
    /\ UNCHANGED engineVars

\* ai-queue.ts:61-66  fetch or response.json() rejected:
\* update(task.id, {status: 'error', result: 'Failed to process AI request'})
FetchFail(s) ==
    /\ aiRuns[s].pc = "fetch"
    /\ aiQueue' = [aiQueue EXCEPT ![Task(s)] = [status |-> "error", result |-> "failed"]]
    /\ aiRuns' = [aiRuns EXCEPT ![s].pc = "error"]
    /\ aiWaiters' = Append(aiWaiters, [kind |-> "run", who |-> s])
    /\ UNCHANGED requests
    /\ UNCHANGED <<navOnline, events, tasks, taskIds, user, shown, storeFailures>>
    /\ UNCHANGED engineVars

\* ------------------------------------------------------------ specification
\* sync-engine.ts:5-14  the constructor: isOnline = navigator.onLine
Init ==
    /\ navOnline \in BOOLEAN
    /\ isOnline = navOnline
    /\ isSyncing = FALSE
    /\ events = <<>>
    /\ syncQueue = {}
    /\ nextId = 1
    /\ drain = [s \in Invocations |-> IdleDrain]
    /\ storeWaiters = <<>>
    /\ remote = [r \in RecordIds |-> NoData]
    /\ tasks = <<>>
    /\ taskIds = {}
    /\ user = NoUser
    /\ shown = [isOnline |-> TRUE, isSyncing |-> FALSE]
    /\ storeFailures = 0
    /\ aiQueue = <<>>
    /\ aiRuns = [s \in 1..MaxJobs |-> IdleRun]
    /\ aiWaiters = <<>>
    /\ requests = [k \in 1..MaxJobs |-> 0]
    /\ reentered = FALSE
    /\ lastData = [r \in RecordIds |-> NoData]
    /\ enqueued = {}
    /\ evicted = FALSE

\* the steps of a pass of sync() and of the remote backend
Pass ==
    \/ \E s \in Invocations : ReadDone(s)
    \/ \E s \in Invocations : RemoteOk(s)
    \/ \E s \in Invocations, applied \in BOOLEAN : RemoteFail(s, applied)
    \/ \E s \in Invocations : UpdateDone(s)
    \/ \E s \in Invocations : DeleteDone(s)

\* the callers of sync(): the end of addToQueue, the 'online' event, the timer
Triggers ==
    \/ AddToQueueResume
    \/ HandleOnline
    \/ HandleOffline
    \/ NavigatorChange
    \/ PeriodicSync

\* The engine and the tasks page. No page of src calls addToQueue, so its calls
\* are inputs of the model: here a caller enqueues a create or an update for a
\* row the page has written and a delete for a row the page has deleted.
Next ==
    \/ \E op \in {"create", "update"}, rec \in DOMAIN tasks, data \in Payloads,
          ts \in Timestamps : AddToQueue(op, rec, data, ts)
    \/ \E rec \in taskIds \ DOMAIN tasks, ts \in Timestamps :
          AddToQueue("delete", rec, NoData, ts)
    \/ Triggers
    \/ Pass
    \/ \E id \in LocalIds, ts \in Timestamps : AddTask(id, ts)
    \/ \E id \in LocalIds, ts \in Timestamps : ToggleTask(id, ts)
    \/ \E id \in LocalIds : DeleteTask(id)
    \/ \E u \in Users \cup {NoUser} : AuthStateChanged(u)

Spec == Init /\ [][Next]_vars

\* The engine alone, fed with updates of one record whose timestamps never go
\* back: the scheduling of the passes, the retries and the evictions.
NextDrain ==
    \/ \E data \in Payloads : AddToQueue("update", "r1", data, 1)
    \/ Triggers
    \/ Pass

SpecDrain == Init /\ [][NextDrain]_vars

\* The engine alone, with every mutation (a create, then updates) enqueued
\* while the engine is offline and a remote backend that never fails; new Date()
\* is any wall-clock reading.
NextOffline ==
    \/ /\ ~isOnline
       /\ \E rec \in RecordIds, data \in Payloads, ts \in Timestamps :
             AddToQueue(IF rec \in enqueued THEN "update" ELSE "create",
                        rec, data, ts)
    \/ Triggers
    \/ \E s \in Invocations : ReadDone(s)
    \/ \E s \in Invocations : RemoteOk(s)
    \/ \E s \in Invocations : DeleteDone(s)

SpecOffline == Init /\ [][NextOffline]_vars

\* The engine alone, fed with updates of two records, with a backend whose
\* calls can throw: what a failure of one entry does to the other entries.
NextTwo ==
    \/ \E rec \in RecordIds : AddToQueue("update", rec, 1, 1)
    \/ Triggers
    \/ Pass

SpecTwo == Init /\ [][NextTwo]_vars

\* The engine with its two collaborators: a backend that also refuses requests
\* and the identity provider signing the owner in and out.
NextBackend ==
    \/ NextDrain
    \/ \E s \in Invocations : RemoteRejected(s)
    \/ \E u \in Users \cup {NoUser} : AuthStateChanged(u)

SpecBackend == Init /\ [][NextBackend]_vars

\* The engine alone, fed with the create of a record and, while the outbox
\* still holds that create entry, the delete of the record; the timestamps do
\* not go back.
NextCreateDelete ==
    \/ \E rec \in RecordIds \ enqueued, data \in Payloads :
          AddToQueue("create", rec, data, 1)
    \/ \E rec \in enqueued :
          /\ lastData[rec] # NoData
          /\ ~NoEntryFor(rec)
          /\ AddToQueue("delete", rec, NoData, 1)
    \/ Triggers
    \/ Pass

SpecCreateDelete == Init /\ [][NextCreateDelete]_vars

\* the db.syncQueue calls of a pass that reject
StoreFailures ==
    \/ \E s \in Invocations : ReadFail(s)
    \/ \E s \in Invocations : RemoteOkDeleteFail(s)
    \/ \E s \in Invocations, ok \in BOOLEAN : CatchStoreError(s, ok)
    \/ \E s \in Invocations, applied \in BOOLEAN : RemoteFailUpdateFail(s, applied)
    \/ \E s \in Invocations : EvictFail(s)
    \/ \E s \in Invocations : Throw(s)

\* The engine alone, fed with updates of one record, where a remote call can
\* throw and a db.syncQueue call of a pass can reject.
NextStore ==
    \/ AddToQueue("update", "r1", 1, 1)
    \/ Triggers
    \/ Pass
    \/ StoreFailures

\* Every remote call and every local-store call returns in the end: the step
\* that resumes the awaiting pass, or the awaiting addToQueue, is taken.
SpecStore ==
    /\ Init
    /\ [][NextStore]_vars
    /\ WF_vars(Pass \/ StoreFailures)
    /\ WF_vars(AddToQueueResume)

\* The engine, fed with updates of one record, and the NetworkStatus component
\* polling getStatus().
NextStatus ==
    \/ AddToQueue("update", "r1", 1, 1)
    \/ Triggers
    \/ Pass
    \/ UpdateStatus

SpecStatus == Init /\ [][NextStatus]_vars

\* The tasks page, the chatbot and the engine. No page calls addToQueue, so its
\* calls are inputs: a caller enqueues the create of a row addTask has written
\* and the update of a row toggleTask has changed.
NextPage ==
    \/ \E u \in Users \cup {NoUser} : AuthStateChanged(u)
    \/ \E id \in LocalIds : AddTask(id, 1)
    \/ \E id \in LocalIds, data \in Payloads : ChatbotInsert(id, data, 1)
    \/ \E id \in LocalIds : ToggleTask(id, 1)
    \/ \E id \in LocalIds : DeleteTask(id)
    \/ \E rec \in DOMAIN tasks :
          /\ ~tasks[rec].synced
          /\ rec \notin enqueued
          /\ AddToQueue("create", rec, 1, 1)
    \/ \E rec \in DOMAIN tasks :
          /\ tasks[rec].completed
          /\ AddToQueue("update", rec, 1, 1)
    \/ Triggers
    \/ Pass

SpecPage == Init /\ [][NextPage]_vars

\* The engine alone, fed with updates of one record, under the scheduling the
\* platform guarantees: a remote call and a local-store call return in the end
\* and the 30 s interval of SyncProvider keeps firing.
NextTimer ==
    \/ AddToQueue("update", "r1", 1, 1)
    \/ Triggers
    \/ Pass

SpecTimer ==
    /\ Init
    /\ [][NextTimer]_vars
    /\ WF_vars(Pass)
    /\ WF_vars(AddToQueueResume)
    /\ WF_vars(PeriodicSync)

\* The engine and the interval as in SpecTimer, with a browser whose 'online'
\* event can fail to reach the engine; the window events that are dispatched
\* are handled in the end.
NextMissed ==
    \/ NextTimer
    \/ OnlineEventMissed

SpecMissed ==
    /\ Init
    /\ [][NextMissed]_vars
    /\ WF_vars(Pass)
    /\ WF_vars(AddToQueueResume)
    /\ WF_vars(PeriodicSync)
    /\ WF_vars(HandleOnline)
    /\ WF_vars(HandleOffline)

\* ----------------------------------------------------------------- claims
\* C1: at most one pass of sync() is past the reentrancy guard at any time,
\* and isSyncing is true exactly while there is one.
C1_AtMostOneDrainPass ==
    /\ Cardinality(Active) <= 1
    /\ isSyncing <=> Active # {}

\* C1 witness: a sync() call was turned away while a pass is replaying its
\* second entry.
C1_Witness ==
    /\ reentered
    /\ \E s \in Invocations : drain[s].pc = "remote" /\ drain[s].i = 2

\* C2: while a pass is in flight a sync() call starts no pass, changes no
\* outbox entry and issues no remote call, and isSyncing is cleared only by the
\* step in which the running pass finishes its snapshot.
C2_SecondDrainIsNoOp ==
    [][isSyncing =>
         /\ \A s \in Invocations : drain[s].pc = "idle" => drain'[s].pc = "idle"
         /\ (~isSyncing') =>
                \E s \in Invocations :
                    /\ drain[s].pc # "idle"
                    /\ drain'[s].pc = "idle"
                    /\ drain[s].i = Len(drain[s].queue)
         /\ (drain' = drain) => (remote' = remote /\ syncQueue \subseteq syncQueue')
      ]_vars

\* C2 witness: a sync() call has returned at the guard while the first pass
\* was still waiting for its snapshot.
C2_Witness ==
    /\ reentered
    /\ isSyncing
    /\ \E s \in Invocations : drain[s].pc = "read"

\* C3 (as claimed): the entries a pass has replayed so far were replayed in
\* ascending id order.
C3_AscendingIdOrder ==
    \A s \in Invocations :
        \A j, k \in 1..drain[s].i :
            j < k => drain[s].queue[j].id < drain[s].queue[k].id

\* C4 (as claimed): no remote call is issued for an entry whose stored
\* attempts is 5 or more, so an always failing entry is replayed 5 times.
C4_FiveReplays ==
    \A s \in Invocations :
        drain[s].pc = "remote" => Item(s).attempts < MaxAttempts

\* C5 (as claimed): once the outbox holds no entry for a record and nothing
\* was evicted, the remote copy is the payload of the record's latest entry.
C5_ConvergesAfterRetries ==
    \A r \in enqueued :
        (~evicted /\ NoEntryFor(r)) => remote[r] = lastData[r]

\* C6 (as claimed): after creates and updates of a record made offline have
\* been drained against a backend that never fails, the remote copy is the
\* payload of the latest one.
C6_OfflineEditsConverge ==
    \A r \in enqueued : NoEntryFor(r) => remote[r] = lastData[r]

\* C7 (as claimed): once the pass that upserted a record has completed, the
\* local row has synced = true.
C7_SyncedAfterReplay ==
    \A id \in DOMAIN tasks :
        (/\ remote[id] # NoData
         /\ ~evicted
         /\ Active = {}
         /\ NoEntryFor(id)) => tasks[id].synced

\* C8 (as claimed): isSyncing implies isOnline.
C8_SyncingImpliesOnline == isSyncing => isOnline

\* C8 (amended): a pass starts only while isOnline is true, that is isSyncing
\* turns true only in a step that leaves isOnline true.
C8_PassStartsOnline ==
    [][(~isSyncing /\ isSyncing') => isOnline']_vars

\* C8 witness: the offline event has been handled while a pass is awaiting a
\* remote call.
C8_Witness ==
    /\ isSyncing
    /\ ~isOnline
    /\ \E s \in Invocations : drain[s].pc = "remote"

\* the step in which an addToQueue() that was called offline returns
OfflineAddReturns ==
    /\ storeWaiters # <<>>
    /\ Head(storeWaiters).kind = "add"
    /\ Head(storeWaiters).offline
    /\ \/ storeWaiters' = Tail(storeWaiters)
       \/ \E s \in Invocations :
             storeWaiters' = Append(Tail(storeWaiters), [kind |-> "sync", who |-> s])

\* the entry of the addToQueue() at the head of storeWaiters is in S untouched
HeadEntryUntouched(S) ==
    \E e \in S :
        /\ e.id = Head(storeWaiters).who
        /\ e.attempts = 0
        /\ e.data = Head(storeWaiters).data

\* a step that issues a remote call
IssuesRemoteCall ==
    \E s \in Invocations :
        /\ drain'[s].pc = "remote"
        /\ drain[s].pc # "remote" \/ drain'[s].i # drain[s].i

\* C9 (as claimed): when an addToQueue() called offline returns, the engine
\* being still offline, its entry is in the outbox untouched and isSyncing is
\* false.
C9_OfflineEnqueueIdle ==
    [][(OfflineAddReturns /\ ~isOnline) =>
           (HeadEntryUntouched(syncQueue') /\ ~isSyncing')]_vars

\* C9 (amended): an addToQueue() called offline adds exactly one entry and
\* issues no remote call; when it returns its entry is in the outbox with
\* attempts 0 and its payload, and if the engine is still offline the call
\* leaves isSyncing as it was.
C9_OfflineEnqueue ==
    [][/\ (nextId' # nextId /\ ~isOnline) =>
              /\ syncQueue \subseteq syncQueue'
              /\ Cardinality(syncQueue') = Cardinality(syncQueue) + 1
              /\ remote' = remote
              /\ ~IssuesRemoteCall
       /\ OfflineAddReturns =>
              /\ HeadEntryUntouched(syncQueue')
              /\ remote' = remote
              /\ ~IssuesRemoteCall
              /\ (~isOnline) => (isSyncing' = isSyncing)
      ]_vars

\* C9 witness: an addToQueue() called offline is about to return while the
\* engine is offline and a pass that began earlier is still running.
C9_Witness ==
    /\ storeWaiters # <<>>
    /\ Head(storeWaiters).kind = "add"
    /\ Head(storeWaiters).offline
    /\ ~isOnline
    /\ isSyncing

\* C10 (as claimed): every row the tasks page has added has had an outbox
\* entry enqueued for it.
C10_EveryMutationEnqueued == \A id \in taskIds : id \in enqueued

C12_RejectedEntryStays ==
    \A r \in enqueued : (NoEntryFor(r) /\ ~evicted) => remote[r] # NoData

\* C13 (as claimed): while no owner is signed in, no step issues a remote
\* call and no outbox entry is removed or changed.
C13_NoOwnerNoReplay ==
    [][(user = NoUser /\ user' = NoUser) =>
           /\ ~IssuesRemoteCall
           /\ \A e \in syncQueue : e \in syncQueue'
      ]_vars

\* C14 (as claimed): a record was created and then deleted while its create
\* entry was still in the outbox; once both entries have left the outbox
\* (neither of them evicted) the record has no remote row.
C14_CreateThenDelete ==
    \A r \in enqueued :
        (lastData[r] = NoData /\ NoEntryFor(r) /\ ~evicted) => remote[r] = NoData

\* C15: every pass that starts returns to idle, isSyncing becomes false
\* again, whatever the outcome of its remote calls and also when one of its
\* db.syncQueue calls rejects.
C15_PassTerminates == isSyncing ~> ~isSyncing

\* C15 witness: a db.syncQueue call of the catch block has rejected and the
\* error is about to leave the pass, isSyncing still set.
C15_Witness ==
    /\ isSyncing
    /\ \E s \in Invocations : drain[s].pc = "throw" /\ AtHead(s)

\* C16: getStatus() is a pure read. A step that changes what NetworkStatus
\* shows stores the engine's current {isOnline, isSyncing} and changes nothing
\* else: neither flag, nor the outbox, nor an entity table, nor a pass.
C16_GetStatusPureRead ==
    [][(shown' # shown) =>
           /\ shown' = [isOnline |-> isOnline, isSyncing |-> isSyncing]
           /\ UNCHANGED <<isOnline, isSyncing, syncQueue, nextId, tasks, taskIds,
                          drain, storeWaiters, remote>>
      ]_vars

\* C16 witness: getStatus() was called during a pass after the offline event
\* and the component shows that status.
C16_Witness ==
    /\ isSyncing
    /\ ~isOnline
    /\ shown = [isOnline |-> FALSE, isSyncing |-> TRUE]

\* C17 (as claimed): the step that evicts an entry leaves the entity tables
\* as they are, and the local row of the entry's record, when there is one, has
\* synced = false.
C17_EvictionLeavesUnsynced ==
    [][\A s \in Invocations :
          (drain[s].pc = "update" /\ drain'[s].pc = "evict") =>
              /\ tasks' = tasks
              /\ \A id \in DOMAIN tasks :
                    id = Item(s).recordId => ~tasks[id].synced
      ]_vars

\* C18 (as claimed): a step that changes an existing row of db.tasks leaves it
\* with synced = false.
C18_MutationResetsSynced ==
    [][\A id \in DOMAIN tasks \cap DOMAIN tasks' :
          (tasks'[id] # tasks[id]) => ~tasks'[id].synced
      ]_vars

Ids(S) == {e.id : e \in S}

Rows(q) == {q[j] : j \in 1..Len(q)}

\* C21: a pass works on the snapshot read at its start. The snapshot holds
\* exactly the rows the outbox has when the pass begins, no step of the pass or
\* of an addToQueue() changes it, the pass moves through it one entry at a
\* time and ends after its last entry.
C21_SnapshotFixed ==
    [][\A s \in Invocations :
          /\ (drain[s].pc = "idle" /\ drain'[s].pc # "idle") =>
                 /\ Rows(drain'[s].queue) = syncQueue
                 /\ Len(drain'[s].queue) = Cardinality(syncQueue)
          /\ (drain[s].pc # "idle" /\ drain'[s].pc # "idle") =>
                 /\ drain'[s].queue = drain[s].queue
                 /\ drain'[s].i \in {drain[s].i, drain[s].i + 1}
          /\ (drain[s].pc # "idle" /\ drain'[s].pc = "idle") =>
                 drain[s].i = Len(drain[s].queue)
      ]_vars

\* C21 witness: a pass has processed the last entry of its snapshot while the
\* outbox holds an entry enqueued after the pass began, never replayed.
C21_Witness ==
    \E s \in Invocations :
        /\ drain[s].pc = "delete"
        /\ drain[s].i = Len(drain[s].queue)
        /\ \E e \in syncQueue :
              /\ e.attempts = 0
              /\ e.id \notin {f.id : f \in Rows(drain[s].queue)}

\* the remote call of the entry with key id is being made
Replaying(id) ==
    \E s \in Invocations : drain[s].pc = "remote" /\ Item(s).id = id

\* C22: no entry stays in the outbox forever without being replayed while the
\* device stays online: an entry of the outbox is replayed in the end, or has
\* left the outbox (evicted by the catch block that follows a replay), unless
\* the engine or the browser goes offline.
C22_EventuallyReplayed ==
    \A id \in 1..MaxEntries :
        (id \in Ids(syncQueue)) ~>
            (Replaying(id) \/ id \notin Ids(syncQueue) \/ ~isOnline \/ ~navOnline)

\* C22 witness: the engine is online and idle, nothing is pending, and the
\* outbox holds an entry never replayed: it was enqueued during a pass, the
\* sync() of its addToQueue() returned at the guard and the pass has ended.
C22_Witness ==
    /\ isOnline
    /\ navOnline
    /\ ~isSyncing
    /\ storeWaiters = <<>>
    /\ events = <<>>
    /\ \E e \in syncQueue : e.attempts = 0

\* the step that handles the window's 'online' event
OnlineEventHandled ==
    /\ events # <<>>
    /\ Head(events) = "online"
    /\ events' = Tail(events)

\* C23: the step that handles a became-online event sets isOnline and calls
\* sync() without waiting for it: when the engine is idle a pass begins in
\* that step, on the outbox as it is, and the step itself replays nothing;
\* when a pass is running none is added.
C23_OnlineEventStartsPass ==
    [][OnlineEventHandled =>
           /\ isOnline'
           /\ (~isSyncing) =>
                  /\ isSyncing'
                  /\ \E s \in Invocations :
                        /\ drain[s].pc = "idle"
                        /\ drain'[s].pc = "read"
                        /\ Rows(drain'[s].queue) = syncQueue
           /\ isSyncing => drain' = drain
           /\ syncQueue' = syncQueue
           /\ remote' = remote
      ]_vars

\* C23 witness: the became-online event is about to be handled while the
\* engine is offline and idle and the outbox is not empty.
C23_Witness ==
    /\ events # <<>>
    /\ Head(events) = "online"
    /\ ~isOnline
    /\ ~isSyncing
    /\ storeWaiters = <<>>
    /\ syncQueue # {}

\* C24 (as claimed): when the browser is online, the engine still has
\* isOnline = false with no window event left to handle, and the outbox is not
\* empty, the 30 s interval starts a pass in the end (unless the browser goes
\* offline again).
C24_TimerRepairsMissedOnline ==
    (navOnline /\ ~isOnline /\ events = <<>> /\ syncQueue # {}) ~>
        (isSyncing \/ ~navOnline)

\* the outbox S holds the outcome of the replay of the snapshot row e: the
\* row is gone (removed on success, or evicted) or its attempts is one more
Outcome(S, e) ==
    \/ e.id \notin Ids(S)
    \/ \E f \in S : f.id = e.id /\ f.attempts = e.attempts + 1

\* C25: entries are processed one at a time. At most one remote call of the
\* engine is in flight, and when a pass issues the remote call of an entry the
\* outbox holds the outcome of every earlier entry of its snapshot.
C25_OneAtATime ==
    [][/\ Cardinality({s \in Invocations : drain'[s].pc = "remote"}) <= 1
       /\ \A s \in Invocations :
             drain'[s].pc = "remote" =>
                 \A j \in 1..(drain'[s].i - 1) :
                     Outcome(syncQueue', drain'[s].queue[j])
      ]_vars

\* C25 witness: the remote call of the second entry is in flight, the first
\* entry having failed, its attempts written to the outbox.
C25_Witness ==
    \E s \in Invocations :
        /\ drain[s].pc = "remote"
        /\ drain[s].i = 2
        /\ \E f \in syncQueue :
              /\ f.id = drain[s].queue[1].id
              /\ f.attempts = drain[s].queue[1].attempts + 1

\* the step in which an addToQueue() returns
AddReturns ==
    /\ storeWaiters # <<>>
    /\ Head(storeWaiters).kind = "add"
    /\ \/ storeWaiters' = Tail(storeWaiters)
       \/ \E s \in Invocations :
             storeWaiters' = Append(Tail(storeWaiters), [kind |-> "sync", who |-> s])

\* C26: addToQueue() adds exactly one row, under a new id, with attempts 0 and
\* the timestamp it was given, and changes no other row; when its add has
\* resolved it calls sync() if the engine is online and returns in that same
\* step, the pass (if one begins) still at its snapshot read; offline, or with
\* a pass running, it starts nothing. Neither step replays an entry.
C26_EnqueueAppendsOne ==
    [][/\ (nextId' # nextId) =>
              /\ \E e \in syncQueue' :
                    /\ e.id = nextId
                    /\ e.id \notin Ids(syncQueue)
                    /\ e.attempts = 0
                    /\ e.timestamp \in Timestamps
                    /\ syncQueue' = syncQueue \cup {e}
              /\ nextId' = nextId + 1
              /\ drain' = drain
              /\ isSyncing' = isSyncing
              /\ remote' = remote
       /\ AddReturns =>
              /\ syncQueue' = syncQueue
              /\ remote' = remote
              /\ (isOnline /\ ~isSyncing) =>
                     /\ isSyncing'
                     /\ \E s \in Invocations :
                           /\ drain[s].pc = "idle"
                           /\ drain'[s].pc = "read"
              /\ (~isOnline \/ isSyncing) =>
                     /\ drain' = drain
                     /\ isSyncing' = isSyncing
      ]_vars

\* C26 witness: an addToQueue() is about to return while the engine is online
\* and idle and the outbox holds its row beside an older one that has already
\* failed a replay.
C26_Witness ==
    /\ storeWaiters # <<>>
    /\ Head(storeWaiters).kind = "add"
    /\ isOnline
    /\ ~isSyncing
    /\ \E e, f \in syncQueue :
          /\ e.id = Head(storeWaiters).who
          /\ e.attempts = 0
          /\ f.id # e.id
          /\ f.attempts > 0

\* The AI queue: addToQueue() calls of any caller, the passes of processQueue()
\* they start, the replies of /api/ai, and the browser going on and off line
\* (the engine's listeners handle the events; its outbox stays empty).
NextAI ==
    \/ AIAddToQueue
    \/ AIAddToQueueResume
    \/ \E s \in 1..MaxJobs : ProcessQueueNext(s)
    \/ \E s \in 1..MaxJobs : SendRequest(s)
    \/ \E s \in 1..MaxJobs, out \in AIOutputs : FetchOk(s, out)
    \/ \E s \in 1..MaxJobs : FetchFail(s)
    \/ NavigatorChange
    \/ HandleOnline
    \/ HandleOffline
    \/ \E s \in Invocations : ReadDone(s)

SpecAI == Init /\ [][NextAI]_vars

\* C27 (as claimed): no AI job has two requests sent for it.
C27_AtMostOneRequest == \A k \in 1..MaxJobs : requests[k] <= 1

\* the moves of a job's status the claim allows
Forward(a, b) ==
    \/ a = b
    \/ a = "pending" /\ b = "processing"
    \/ a = "processing" /\ b \in {"done", "error"}

\* C28 (as claimed): the status of an AI job only moves pending -> processing
\* -> done or error: a job that is done or error keeps its status.
C28_StatusMovesForward ==
    [][\A k \in 1..Len(aiQueue) :
           Forward(aiQueue[k].status, aiQueue'[k].status)]_vars

\* the step in which the remote call of the entry the pass s is at fails
FailedReplay(s) ==
    /\ drain[s].pc = "remote"
    /\ drain'[s].pc \in {"update", "throw"}

\* the step in which the catch block of the pass s, entered because the
\* outbox delete after a successful remote call rejected, writes attempts
DeleteRejectedCounted(s) ==
    /\ drain[s].pc = "caught"
    /\ drain'[s].pc = "update"

\* the row of S with the id of e has one attempt more than e
OneMore(S, e) == \E f \in S : f.id = e.id /\ f.attempts = e.attempts + 1

\* a new row starts with attempts 0
StartsAtZero ==
    \A f \in syncQueue' : f.id \notin Ids(syncQueue) => f.attempts = 0

\* C29 (as claimed): the attempt counter counts the failed replays. A row
\* starts with attempts 0; a failed replay of an entry adds exactly 1 to its
\* attempts; and no other step changes the attempts of a row, neither down
\* nor up.
C29_AttemptsCountFailedReplays ==
    [][/\ StartsAtZero
       /\ \A s \in Invocations :
             FailedReplay(s) => OneMore(syncQueue', Item(s))
       /\ \A e \in syncQueue, f \in syncQueue' :
             (f.id = e.id /\ f.attempts # e.attempts) =>
                 \E s \in Invocations : FailedReplay(s) /\ Item(s).id = e.id
      ]_vars

\* C29 (amended): a row starts with attempts 0; a failed replay of an entry
\* adds exactly 1 to its attempts unless the update that writes it rejects;
\* the attempts of a row changes in no other step, except that a successful
\* replay whose outbox delete rejected is counted too, again by exactly 1;
\* attempts is never decremented or reset, and no step of a pass changes the
\* attempts of an entry other than the one the pass is at.
C29_AttemptsCountFailedTries ==
    [][/\ StartsAtZero
       /\ \A s \in Invocations :
             (FailedReplay(s) /\ drain'[s].pc = "update") =>
                 OneMore(syncQueue', Item(s))
       /\ \A s \in Invocations :
             DeleteRejectedCounted(s) => OneMore(syncQueue', Item(s))
       /\ \A e \in syncQueue, f \in syncQueue' :
             (f.id = e.id /\ f.attempts # e.attempts) =>
                 /\ f.attempts = e.attempts + 1
                 /\ \E s \in Invocations :
                       /\ Item(s).id = e.id
                       /\ \/ FailedReplay(s) /\ drain'[s].pc = "update"
                          \/ DeleteRejectedCounted(s)
      ]_vars

\* C29 witness: an entry has failed twice and its attempts is 2 while the
\* entry after it, replayed in the same passes, has a different count, and an
\* outbox call of a pass has rejected.
C29_Witness ==
    /\ storeFailures >= 1
    /\ \E e, f \in syncQueue :
          /\ e.id < f.id
          /\ e.attempts = 2
          /\ f.attempts = 1

\* the step that handles a became-offline event
OfflineEventHandled ==
    /\ events # <<>>
    /\ Head(events) = "offline"
    /\ events' = Tail(events)

\* C30: the step that handles a became-offline event clears isOnline and
\* leaves the outbox (its rows and their attempts), isSyncing, the running
\* pass and the remote table as they are; and a pass, online or not, leaves
\* an entry only for the next entry of its snapshot and ends only after the
\* last one.
C30_OfflineOnlyClearsFlag ==
    [][/\ OfflineEventHandled =>
              /\ ~isOnline'
              /\ syncQueue' = syncQueue
              /\ nextId' = nextId
              /\ isSyncing' = isSyncing
              /\ drain' = drain
              /\ storeWaiters' = storeWaiters
              /\ remote' = remote
       /\ \A s \in Invocations :
             (~isOnline /\ drain[s].pc # "idle" /\ drain'[s] # drain[s]) =>
                 /\ drain'[s].pc = "idle" => drain[s].i = Len(drain[s].queue)
                 /\ drain'[s].pc # "idle" =>
                        /\ drain'[s].queue = drain[s].queue
                        /\ \/ drain'[s].i = drain[s].i
                           \/ /\ drain'[s].i = drain[s].i + 1
                              /\ drain'[s].pc = "remote"
      ]_vars

\* C30 witness: the engine is offline with no event left to handle, and the
\* pass that was running when it went offline has gone on to the remote call
\* of the second entry of its snapshot, the first one still in the outbox
\* with its failure counted.
C30_Witness ==
    /\ ~isOnline
    /\ ~navOnline
    /\ events = <<>>
    /\ isSyncing
    /\ \E s \in Invocations :
          /\ drain[s].pc = "remote"
          /\ Len(drain[s].queue) = 2
          /\ drain[s].i = 2
          /\ OneMore(syncQueue, drain[s].queue[1])

====
